---- MODULE Spec2Model ----
(***************************************************************************)
(* kitty: a password-protected tracker of configuration files.  The model  *)
(* covers the crypto engine (commands/init.rs), the two storage backends   *)
(* (flat files under .kitty/, and the SQLite database of                   *)
(* storage/sqlite.rs) and the repository operations add, remove, list and  *)
(* restore (commands/*.rs).                                                *)
(*                                                                         *)
(* Modelling conventions                                                   *)
(*  - A path is a sequence of characters, so that str::contains and        *)
(*    canonicalize are computed, not assumed.                              *)
(*  - PBKDF2, BLAKE3 and ChaCha20-Poly1305 are ideal: a derived key is the *)
(*    pair it was derived from, a digest names its preimage, and a sealed  *)
(*    box opens only under the key and nonce it was sealed with and only   *)
(*    when no byte of it was changed.                                      *)
(*  - OsRng is a nondeterministic choice: any value may be drawn, also one *)
(*    drawn before.  Uuid::new_v4 is taken to be collision free.           *)
(***************************************************************************)
EXTENDS Naturals, Sequences, FiniteSets

VARIABLES
    repo_exists,    \* the directory .kitty exists
    storage_type,   \* content of .kitty/storage.type, or NoFile
    salt_key,       \* content of .kitty/salt.key (a hex string), or NoFile
    config_enc,     \* content of .kitty/config.enc (a blob), or NoFile
    files_dir,      \* .kitty/files/<uuid>: function uuid -> blob
    db_repository,  \* kitty.db, table repository: rows (at most one, id = 1)
    db_files,       \* kitty.db, table files: rows in rowid order
    live,           \* the tracked files themselves: canonical path -> content or NoFile
    bak,            \* <path>.bak files written by restore: path -> content or NoFile
    clock,          \* Utc::now()
    next_uuid,      \* number of uuids drawn so far
    pc,             \* per invocation: where it stands
    local,          \* per invocation: the values add_file holds between its two writes
    result,         \* per invocation: what the finished command returned
    repo_password,  \* history: the password given to init
    added,          \* history: path -> content captured by the last successful add
    trail,          \* history: fresh after init, then the one add done since, else
                    \* other; crashed once a command was killed between its writes
    cx              \* the crypto engine exercised on its own (SpecCrypto)

vars == <<repo_exists, storage_type, salt_key, config_enc, files_dir, db_repository,
          db_files, live, bak, clock, next_uuid, pc, local, result, repo_password,
          added, trail, cx>>

repo_vars == <<repo_exists, storage_type, salt_key, config_enc, files_dir,
               db_repository, db_files>>

----------------------------------------------------------------------------
(* Bounds of the model *)

\* Utc::now() is read at most MaxClock times in a run (one read per init or add).
MaxClock == 2

\* The crypto engine on its own seals at most MaxSealed blobs.
MaxSealed == 2

\* A live file grows to at most MaxLines lines.
MaxLines == 3

(* Program constants *)
SALT_LEN == 16
NONCE_LEN == 12

\* An absent file, an SQL NULL, an absent value.  The marker file storage.type holds
\* a short string, and its absence is the string NoMarker.
NoFile == [nofile |-> TRUE]
NULL == [null |-> TRUE]
None == [none |-> TRUE]
NoMarker == "NoMarker"

\* A file's bytes: its lines.
Text(body) == [fmt |-> "text", body |-> body]

Passwords == {"pw1", "pw2"}
Nonces == {"n1", "n2"}
Contents == {Text(<<1>>), Text(<<2>>)}

\* The invocations that may run; the sequential specification uses the first.
Procs == {1, 2}

----------------------------------------------------------------------------
(* Results: Rust's Result<T, KittyError>, and a panic *)

Ok(v) == [ok |-> TRUE, val |-> v]
Err(kind, msg) == [ok |-> FALSE, kind |-> kind, msg |-> msg]
Panic(msg) == [ok |-> FALSE, kind |-> "panic", msg |-> msg]

----------------------------------------------------------------------------
(* Paths *)

CWD == <<"/">>
CanonPaths == {<<"/", "a">>, <<"/", "b">>}
ArgPaths == {<<".", "/", "a">>, <<"a">>, <<"/", "b">>}

\* str::contains: sub occurs in s as a contiguous run of characters.
contains(s, sub) ==
    \E i \in 0..Len(s) :
        /\ i + Len(sub) <= Len(s)
        /\ \A j \in 1..Len(sub) : s[i + j] = sub[j]

\* The absolute path an argument names, relative to the working directory:
\* leading "./" components are dropped.
RECURSIVE Resolve(_)
Resolve(arg) ==
    IF Len(arg) >= 1 /\ arg[1] = "/" THEN arg
    ELSE IF Len(arg) >= 2 /\ arg[1] = "." /\ arg[2] = "/"
         THEN Resolve(SubSeq(arg, 3, Len(arg)))
    ELSE CWD \o arg

Exists(fs, path) == path \in DOMAIN fs /\ fs[path] # NoFile

\* Path::canonicalize: the absolute path, an error when nothing is there.
canonicalize(fs, arg) ==
    IF Exists(fs, Resolve(arg)) THEN Ok(Resolve(arg))
    ELSE Err("Io", "No such file or directory")

----------------------------------------------------------------------------
(* Encodings *)

\* hex::encode / hex::decode of a byte string.
hex_encode(bytes) == [fmt |-> "hex", body |-> bytes]
hex_decode(str) ==
    IF str.fmt = "hex" THEN Ok(str.body)
    ELSE Err("HexDecoding", "invalid hex")

\* The salt get_repository_salt falls back to: 64 zeros, which decode to 32 bytes.
PlaceholderSalt == hex_encode([len |-> 32, id |-> 0])

\* DateTime::to_rfc3339 / DateTime::parse_from_rfc3339.
to_rfc3339(t) == [fmt |-> "rfc3339", body |-> t]
parse_from_rfc3339(s) ==
    IF s.fmt = "rfc3339" THEN Ok(s.body)
    ELSE Err("Io", "input contains invalid characters")

\* SQLite's datetime('now'): "YYYY-MM-DD HH:MM:SS", which is no RFC 3339 string.
sqlite_datetime(t) == [fmt |-> "sqlite_datetime", body |-> t]

\* serde_json::to_string / from_slice of a Repository.
to_json(repository) == [fmt |-> "json", body |-> repository]
from_json(bytes) ==
    IF bytes.fmt = "json" THEN Ok(bytes.body)
    ELSE Err("Serialization", "expected value")

\* blake3::hash(..).to_hex()
blake3_hash(content) == [fmt |-> "blake3", body |-> content]

\* Number of bytes of a plaintext: a file's content, or a serialized Repository
\* (never under 90 bytes: the field names, a timestamp and 32 hex digits of salt).
ByteLen(data) ==
    IF data.fmt = "json" THEN 90 + Len(data.body.files) ELSE Len(data.body)

----------------------------------------------------------------------------
(* Crypto engine: commands/init.rs *)

\* Crypto::from_password_and_salt: copy_from_slice panics unless the salt has
\* SALT_LEN bytes; PBKDF2 then derives the key from password and salt.
from_password_and_salt(password, salt) ==
    IF salt.len # SALT_LEN
    THEN Panic("source slice length does not match destination slice length")
    ELSE Ok([pw |-> password, salt |-> salt])

\* ChaCha20Poly1305::encrypt: ciphertext and tag, 16 bytes longer than the data.
aead_seal(key, nonce, data) ==
    [k |-> key, n |-> nonce, pt |-> data, tag |-> "ok", len |-> ByteLen(data) + 16]

\* ChaCha20Poly1305::decrypt: the plaintext when key, nonce and tag all fit.
aead_open(key, nonce, box) ==
    IF box.k = key /\ box.n = nonce /\ box.tag = "ok"
    THEN Ok(box.pt)
    ELSE Err("Decryption", "aead::Error")

\* Crypto::encrypt with the nonce OsRng drew: nonce, then ciphertext.
encrypt_nonce_dropped(key, nonce, data) ==
    [nonce |-> "n0", box |-> aead_seal(key, nonce, data),
     len |-> NONCE_LEN + aead_seal(key, nonce, data).len]

encrypt(key, nonce, data) ==
    [nonce |-> nonce, box |-> aead_seal(key, nonce, data),
     len |-> NONCE_LEN + aead_seal(key, nonce, data).len]

\* Crypto::decrypt
decrypt_unauthenticated(key, data) ==
    IF data.len < NONCE_LEN THEN Err("Decryption", "Invalid ciphertext")
    ELSE Ok(data.box.pt)

decrypt_invalid_password(key, data) ==
    IF data.len < NONCE_LEN THEN Err("Decryption", "Invalid ciphertext")
    ELSE IF aead_open(key, data.nonce, data.box).ok
         THEN aead_open(key, data.nonce, data.box)
         ELSE Err("InvalidPassword", "Invalid password")

decrypt(key, data) ==
    IF data.len < NONCE_LEN THEN Err("Decryption", "Invalid ciphertext")
    ELSE aead_open(key, data.nonce, data.box)

----------------------------------------------------------------------------
(* Locating the repository's backend and salt: utils/file.rs *)

\* get_storage_type: "file" when there is no marker, an error for an unknown one.
get_storage_type(marker) ==
    IF marker = NoMarker THEN Ok("file")
    ELSE IF marker \in {"file", "sqlite"} THEN Ok(marker)
    ELSE Err("StorageType", "Invalid storage type")

\* get_repository_salt: salt.key when it exists; otherwise config.enc is read and,
\* when it has 32 bytes or more, a placeholder salt is returned.
get_repository_salt(sk, cfg) ==
    IF sk # NoFile THEN Ok(sk)
    ELSE IF cfg = NoFile THEN Err("Io", "No such file or directory")
    ELSE IF cfg.len < 32 THEN Err("Decryption", "Invalid repository configuration")
    ELSE Ok(PlaceholderSalt)

\* hex::decode of the salt, then Crypto::from_password_and_salt.
crypto_for(password, salt_str) ==
    IF ~hex_decode(salt_str).ok THEN hex_decode(salt_str)
    ELSE from_password_and_salt(password, hex_decode(salt_str).val)

\* fs::read(config.enc), crypto.decrypt, serde_json::from_slice.
load_config(key, cfg) ==
    IF cfg = NoFile THEN Err("Io", "No such file or directory")
    ELSE IF ~decrypt(key, cfg).ok THEN decrypt(key, cfg)
    ELSE from_json(decrypt(key, cfg).val)

----------------------------------------------------------------------------
(* Functions and sequences *)

\* A write that does not reach the disk.
PutNothing(f, k, v) == f

Put(f, k, v) == [x \in (DOMAIN f) \cup {k} |-> IF x = k THEN v ELSE f[x]]
\* A deletion that does not happen.
DropNothing(f, k) == f

Drop(f, k) == [x \in (DOMAIN f) \ {k} |-> f[x]]

\* Vec::remove(index)
RemoveAt(seq, index) ==
    [i \in 1..(Len(seq) - 1) |-> IF i < index THEN seq[i] ELSE seq[i + 1]]

\* Iterator::position over the indices that fit: the first one, 0 for None.
FirstOf(indices) ==
    IF indices = {} THEN 0 ELSE CHOOSE i \in indices : \A j \in indices : i <= j

\* The last of the indices that fit, 0 for none.
LastOf(indices) ==
    IF indices = {} THEN 0 ELSE CHOOSE i \in indices : \A j \in indices : j <= i

\* The indices of the rows (or TrackedFiles) with this repo_path.
WithRepoPath(seq, path) == {i \in 1..Len(seq) : seq[i].repo_path = path}

----------------------------------------------------------------------------
(* SQLite backend: storage/sqlite.rs *)

\* The TrackedFile of a row of table files, or the error of its timestamps.
row_to_tracked(row) ==
    IF ~parse_from_rfc3339(row.added_at).ok THEN parse_from_rfc3339(row.added_at)
    ELSE IF ~parse_from_rfc3339(row.last_updated).ok
         THEN parse_from_rfc3339(row.last_updated)
    ELSE Ok([original_path |-> row.original_path,
             repo_path |-> row.repo_path,
             added_at |-> parse_from_rfc3339(row.added_at).val,
             last_updated |-> parse_from_rfc3339(row.last_updated).val,
             hash |-> row.hash])

\* SqliteStorage::load_repository: the repository row with id 1 and every row of
\* files in rowid order; the content column is not read.
load_repository(dbrepo, dbfiles) ==
    IF dbrepo = <<>> THEN Err("RepositoryNotFound", "")
    ELSE IF ~parse_from_rfc3339(dbrepo[1].created_at).ok
         THEN parse_from_rfc3339(dbrepo[1].created_at)
    ELSE IF \E i \in 1..Len(dbfiles) : ~row_to_tracked(dbfiles[i]).ok
         THEN Err("Io", "Conversion error")
    ELSE Ok([created_at |-> parse_from_rfc3339(dbrepo[1].created_at).val,
             salt |-> dbrepo[1].salt,
             files |-> [i \in 1..Len(dbfiles) |-> row_to_tracked(dbfiles[i]).val]])

\* The HashMap save_repository builds from "SELECT repo_path, content FROM files":
\* a later row replaces an earlier one of the same repo_path.
file_contents(dbfiles, repo_path) ==
    IF LastOf(WithRepoPath(dbfiles, repo_path)) = 0 THEN None
    ELSE dbfiles[LastOf(WithRepoPath(dbfiles, repo_path))].content

\* save_repository inserting every row with NULL content.
save_repository_files_without_content(dbfiles, repository) ==
    [i \in 1..Len(repository.files) |->
        [original_path |-> repository.files[i].original_path,
         repo_path |-> repository.files[i].repo_path,
         added_at |-> to_rfc3339(repository.files[i].added_at),
         last_updated |-> to_rfc3339(repository.files[i].last_updated),
         hash |-> repository.files[i].hash,
         content |-> NULL]]

\* SqliteStorage::save_repository, the rows of files it commits: one per
\* TrackedFile, with the content the table held for its repo_path, else NULL.
save_repository_files(dbfiles, repository) ==
    [i \in 1..Len(repository.files) |->
        [original_path |-> repository.files[i].original_path,
         repo_path |-> repository.files[i].repo_path,
         added_at |-> to_rfc3339(repository.files[i].added_at),
         last_updated |-> to_rfc3339(repository.files[i].last_updated),
         hash |-> repository.files[i].hash,
         content |-> IF file_contents(dbfiles, repository.files[i].repo_path) \in {None, NULL}
                     THEN NULL
                     ELSE file_contents(dbfiles, repository.files[i].repo_path)]]

\* SqliteStorage::save_repository, the one row of table repository it commits.
save_repository_row(repository) ==
    <<[id |-> 1, created_at |-> to_rfc3339(repository.created_at), salt |-> repository.salt]>>

\* SqliteStorage::save_file: the content of the first row with this repo_path is
\* replaced; when there is none, a row with original_path 'unknown' is inserted.
save_file(dbfiles, path, encrypted_data, now) ==
    IF FirstOf(WithRepoPath(dbfiles, path)) # 0
    THEN [dbfiles EXCEPT ![FirstOf(WithRepoPath(dbfiles, path))].content = encrypted_data]
    ELSE Append(dbfiles, [original_path |-> <<"unknown">>,
                          repo_path |-> path,
                          added_at |-> sqlite_datetime(now),
                          last_updated |-> sqlite_datetime(now),
                          hash |-> [fmt |-> "unknown", body |-> <<>>],
                          content |-> encrypted_data])

\* The indices of the rows with this original_path.
WithOriginalPath(seq, path) == {i \in 1..Len(seq) : seq[i].original_path = path}

\* Option<Vec<u8>> of the content column: Some(data) with data not empty.
has_content(row) == row.content # NULL /\ row.content.len > 0

\* get_file preferring the copy in the repository directory.
get_file_filesystem_first(dbfiles, fdir, path) ==
    IF Exists(fdir, path) THEN Ok(fdir[path])
    ELSE IF FirstOf(WithRepoPath(dbfiles, path)) # 0
            /\ has_content(dbfiles[FirstOf(WithRepoPath(dbfiles, path))])
         THEN Ok(dbfiles[FirstOf(WithRepoPath(dbfiles, path))].content)
    ELSE Err("FileNotTracked", path)

\* SqliteStorage::get_file: the content of the first row with this repo_path;
\* when that row's content is NULL or empty, the file of that name in the
\* repository directory; when there is no such row, the content of the first row
\* with this original_path.
get_file(dbfiles, fdir, path) ==
    IF FirstOf(WithRepoPath(dbfiles, path)) # 0
    THEN LET row == dbfiles[FirstOf(WithRepoPath(dbfiles, path))] IN
         IF has_content(row) THEN Ok(row.content)
         ELSE IF Exists(fdir, path) THEN Ok(fdir[path])
         ELSE Err("Decryption", "File has no content in database and no file")
    ELSE IF FirstOf(WithOriginalPath(dbfiles, path)) # 0
    THEN LET row == dbfiles[FirstOf(WithOriginalPath(dbfiles, path))] IN
         IF has_content(row) THEN Ok(row.content)
         ELSE Err("Decryption", "File has no content in database")
    ELSE Err("FileNotTracked", path)

----------------------------------------------------------------------------
(* Initial state: no repository; two files exist in the working directory *)

Idle == [p \in Procs |-> "idle"]

Init ==
    /\ repo_exists = FALSE
    /\ storage_type = NoMarker
    /\ salt_key = NoFile
    /\ config_enc = NoFile
    /\ files_dir = <<>>
    /\ db_repository = <<>>
    /\ db_files = <<>>
    /\ live = [path \in CanonPaths |-> Text(<<1>>)]
    /\ bak = [path \in CanonPaths |-> NoFile]
    /\ clock = 0
    /\ next_uuid = 0
    /\ pc = Idle
    /\ local = [p \in Procs |-> None]
    /\ result = [p \in Procs |-> None]
    /\ repo_password = None
    /\ added = [path \in CanonPaths |-> NoFile]
    /\ trail = [state |-> "none"]
    /\ cx = [sealed |-> <<>>, opened |-> None]

\* Everything the repository persists: metadata and stored bodies.
Persisted ==
    [storage_type |-> storage_type, salt_key |-> salt_key, config_enc |-> config_enc,
     files_dir |-> files_dir, db_repository |-> db_repository, db_files |-> db_files]

\* A command has returned: its result stands until the invocation ends.
Finish(p, op, args, ret) ==
    /\ pc' = [pc EXCEPT ![p] = "done"]
    /\ local' = [local EXCEPT ![p] = None]
    /\ result' = [result EXCEPT ![p] = [op |-> op, args |-> args, ret |-> ret]]

----------------------------------------------------------------------------
(* init: commands/init.rs *)

\* Crypto::new_from_password: OsRng fills a salt of SALT_LEN bytes.
SaltIds == {1}
new_salt(id) == [len |-> SALT_LEN, id |-> id]

\* The Repository init builds.
new_repository(salt, now) == [created_at |-> now, salt |-> hex_encode(salt), files |-> <<>>]

\* init_repository: the directories and config.enc; neither salt.key nor
\* storage.type is written.
InitRepository(p, password, salt_id, nonce) ==
    /\ pc[p] = "idle"
    /\ IF repo_exists
       THEN /\ Finish(p, "init", [use_sqlite |-> FALSE], Err("RepositoryExists", ""))
            /\ UNCHANGED <<repo_vars, clock, repo_password, trail>>
       ELSE /\ repo_exists' = TRUE
            /\ config_enc' =
                   encrypt(from_password_and_salt(password, new_salt(salt_id)).val, nonce,
                           to_json(new_repository(new_salt(salt_id), clock)))
            /\ clock' = clock + 1
            /\ repo_password' = password
            /\ trail' = [state |-> "fresh"]
            /\ Finish(p, "init", [use_sqlite |-> FALSE], Ok([outcome |-> "initialized"]))
            /\ UNCHANGED <<storage_type, salt_key, files_dir, db_repository, db_files>>
    /\ UNCHANGED <<live, bak, next_uuid, added, cx>>

\* init_repository_with_options, which main.rs calls: the salt goes to salt.key,
\* the backend's name to storage.type, and the empty Repository to config.enc or,
\* with use_sqlite, to the database.
InitRepositoryWithOptions(p, use_sqlite, password, salt_id, nonce) ==
    /\ pc[p] = "idle"
    /\ IF repo_exists
       THEN /\ Finish(p, "init", [use_sqlite |-> use_sqlite], Err("RepositoryExists", ""))
            /\ UNCHANGED <<repo_vars, clock, repo_password, trail>>
       ELSE /\ repo_exists' = TRUE
            /\ salt_key' = hex_encode(new_salt(salt_id))
            /\ storage_type' = IF use_sqlite THEN "sqlite" ELSE "file"
            /\ IF use_sqlite
               THEN /\ db_repository' =
                           save_repository_row(new_repository(new_salt(salt_id), clock))
                    /\ db_files' = save_repository_files(
                           db_files, new_repository(new_salt(salt_id), clock))
                    /\ UNCHANGED config_enc
               ELSE /\ config_enc' =
                           encrypt(from_password_and_salt(password, new_salt(salt_id)).val,
                                   nonce,
                                   to_json(new_repository(new_salt(salt_id), clock)))
                    /\ UNCHANGED <<db_repository, db_files>>
            /\ clock' = clock + 1
            /\ repo_password' = password
            /\ trail' = [state |-> "fresh"]
            /\ Finish(p, "init", [use_sqlite |-> use_sqlite], Ok([outcome |-> "initialized"]))
            /\ UNCHANGED files_dir
    /\ UNCHANGED <<live, bak, next_uuid, added, cx>>

----------------------------------------------------------------------------
(* add: commands/add.rs *)

\* add_file up to the loaded Repository (lines 18-107): the file is resolved and
\* read, the backend and the salt are located, the key is derived, and the
\* Repository is loaded from the database or decrypted from config.enc.
add_open(arg, password) ==
    IF ~repo_exists THEN Err("RepositoryNotFound", "")
    ELSE IF ~canonicalize(live, arg).ok THEN canonicalize(live, arg)
    ELSE IF ~get_storage_type(storage_type).ok THEN get_storage_type(storage_type)
    ELSE IF ~get_repository_salt(salt_key, config_enc).ok
         THEN get_repository_salt(salt_key, config_enc)
    ELSE IF ~crypto_for(password, get_repository_salt(salt_key, config_enc).val).ok
         THEN crypto_for(password, get_repository_salt(salt_key, config_enc).val)
    ELSE LET st == get_storage_type(storage_type).val
             key == crypto_for(password, get_repository_salt(salt_key, config_enc).val).val
             repository == IF st = "sqlite"
                           THEN load_repository(db_repository, db_files)
                           ELSE load_config(key, config_enc)
         IN  IF ~repository.ok THEN repository
             ELSE Ok([file_path |-> canonicalize(live, arg).val,
                      file_content |-> live[canonicalize(live, arg).val],
                      storage_type |-> st,
                      key |-> key,
                      repository |-> repository.val])

\* existing_file_index (lines 111-114): the first record of this original_path.
existing_file_index_never(files, file_path_str) == 0

existing_file_index(files, file_path_str) ==
    FirstOf({i \in 1..Len(files) : files[i].original_path = file_path_str})

\* A storage key that is the same for every file.
new_repo_path_fixed(uuid) == <<"files", 0>>

\* format!("files/{}", Uuid::new_v4())
new_repo_path(uuid) == <<"files", uuid>>

\* The key of an existing record's body on a re-add (line 129).
reused_repo_path_fresh(files, index, uuid) == new_repo_path(uuid)

reused_repo_path(files, index, uuid) == files[index].repo_path

\* The record list after add (lines 123-162): the existing record with a new
\* last_updated and hash, or a new record pushed at the end.
add_update_keeps_hash(files, index, file_path_str, repo_file_path, now, hash) ==
    IF index # 0
    THEN [files EXCEPT ![index].last_updated = now]
    ELSE Append(files, [original_path |-> file_path_str, repo_path |-> repo_file_path,
                        added_at |-> now, last_updated |-> now, hash |-> hash])

add_update(files, index, file_path_str, repo_file_path, now, hash) ==
    IF index # 0
    THEN [files EXCEPT ![index].last_updated = now, ![index].hash = hash]
    ELSE Append(files, [original_path |-> file_path_str, repo_path |-> repo_file_path,
                        added_at |-> now, last_updated |-> now, hash |-> hash])

\* The repo_path add_file hands to SqliteStorage::save_file (lines 174-182): the
\* existing record's, and for a new record that of repository.files[0].
sqlite_content_path(files, index) ==
    IF index # 0 THEN files[index].repo_path ELSE files[1].repo_path

\* add_file, first part: everything up to and including its first write.  On the
\* flat-file backend that write is the encrypted body (lines 138, 150); on SQLite
\* it is save_repository (line 170), a transaction of its own.
AddStart(p, arg, password, nonce) ==
    /\ pc[p] = "idle"
    /\ clock <= MaxClock
    /\ LET o == add_open(arg, password) IN
       IF ~o.ok
       THEN /\ Finish(p, "add", [path |-> arg, password |-> password], o)
            /\ UNCHANGED <<repo_vars, clock, next_uuid>>
       ELSE LET a == o.val
                files == a.repository.files
                index == existing_file_index(files, a.file_path)
                encrypted_content == encrypt(a.key, nonce, a.file_content)
                hash == blake3_hash(a.file_content)
                repo_file_path == IF index # 0
                                  THEN reused_repo_path(files, index, next_uuid + 1)
                                  ELSE new_repo_path(next_uuid + 1)
                repository == [a.repository EXCEPT !.files =
                                  add_update(files, index, a.file_path, repo_file_path,
                                             clock, hash)]
            IN  /\ clock' = clock + 1
                /\ next_uuid' = IF index # 0 THEN next_uuid ELSE next_uuid + 1
                /\ IF a.storage_type # "sqlite"
                   THEN /\ files_dir' = Put(files_dir, repo_file_path, encrypted_content)
                        /\ UNCHANGED <<db_repository, db_files>>
                   ELSE /\ db_repository' = save_repository_row(repository)
                        /\ db_files' = save_repository_files(db_files, repository)
                        /\ UNCHANGED files_dir
                /\ pc' = [pc EXCEPT ![p] = "add_write2"]
                /\ local' = [local EXCEPT ![p] =
                       [path |-> arg, password |-> password,
                        file_path |-> a.file_path, file_content |-> a.file_content,
                        storage_type |-> a.storage_type, key |-> a.key,
                        index |-> index, count_before |-> Len(files),
                        key_before |-> IF index # 0 THEN files[index].repo_path ELSE None,
                        repo_file_path |-> repo_file_path, now |-> clock,
                        encrypted_content |-> encrypted_content,
                        repository |-> repository,
                        db_before |-> db_files,
                        before |-> Persisted]]
                /\ UNCHANGED <<result, repo_exists, storage_type, salt_key, config_enc>>
    /\ UNCHANGED <<live, bak, repo_password, added, trail, cx>>

\* What add_file returned, with what it did.
AddReturn(l) ==
    [index |-> l.index, file_path |-> l.file_path, file_content |-> l.file_content,
     key_before |-> l.key_before,
     now |-> l.now, count_before |-> l.count_before, repo_file_path |-> l.repo_file_path,
     encrypted_content |-> l.encrypted_content, storage_type |-> l.storage_type]

\* The history after one more finished command.
TrailOther == IF trail.state = "crashed" THEN trail ELSE [state |-> "other"]

AddHistory(p) ==
    /\ added' = [added EXCEPT ![local[p].file_path] = local[p].file_content]
    /\ trail' = IF trail.state = "fresh"
                THEN [state |-> "one add", arg |-> local[p].path,
                      password |-> local[p].password]
                ELSE TrailOther

\* add_file, second write on the flat-file backend (lines 185-189): the
\* Repository is serialized, encrypted under a fresh nonce and written to config.enc.
AddFinishFile(p, nonce) ==
    /\ pc[p] = "add_write2"
    /\ local[p].storage_type # "sqlite"
    /\ config_enc' = encrypt(local[p].key, nonce, to_json(local[p].repository))
    /\ Finish(p, "add", [path |-> local[p].path, password |-> local[p].password],
              Ok(AddReturn(local[p])))
    /\ AddHistory(p)
    /\ UNCHANGED <<repo_exists, storage_type, salt_key, files_dir, db_repository, db_files,
                   live, bak, clock, next_uuid, repo_password, cx>>

\* add_file, second write on SQLite (lines 174-182): save_file, outside the
\* transaction save_repository committed.
AddFinishSqlite(p) ==
    /\ pc[p] = "add_write2"
    /\ local[p].storage_type = "sqlite"
    /\ db_files' = save_file(db_files,
                             sqlite_content_path(local[p].repository.files, local[p].index),
                             local[p].encrypted_content, clock)
    /\ Finish(p, "add", [path |-> local[p].path, password |-> local[p].password],
              Ok(AddReturn(local[p])))
    /\ AddHistory(p)
    /\ UNCHANGED <<repo_exists, storage_type, salt_key, config_enc, files_dir,
                   db_repository, live, bak, clock, next_uuid, repo_password, cx>>

\* The process dies between the two writes of add_file: the first write stays.
AddCrash(p) ==
    /\ pc[p] = "add_write2"
    /\ pc' = [pc EXCEPT ![p] = "done"]
    /\ local' = [local EXCEPT ![p] = None]
    /\ result' = [result EXCEPT ![p] =
           [op |-> "add", args |-> [path |-> local[p].path, password |-> local[p].password],
            ret |-> [ok |-> FALSE, kind |-> "crash", msg |-> "",
                     storage_type |-> local[p].storage_type,
                     db_before |-> local[p].db_before,
                     db_after |-> save_file(
                         db_files,
                         sqlite_content_path(local[p].repository.files, local[p].index),
                         local[p].encrypted_content, clock)]]]
    /\ trail' = [state |-> "crashed"]
    /\ UNCHANGED <<repo_vars, live, bak, clock, next_uuid, repo_password, added, cx>>

\* The second write of add_file returns an error, which `?` hands to the caller
\* (fs::write of config.enc, line 189; save_file, lines 177 and 181): the first
\* write stays.
AddFail(p) ==
    /\ pc[p] = "add_write2"
    /\ Finish(p, "add", [path |-> local[p].path, password |-> local[p].password],
              [ok |-> FALSE,
               kind |-> IF local[p].storage_type = "sqlite" THEN "Database" ELSE "Io",
               msg |-> "", before |-> local[p].before])
    /\ trail' = [state |-> "crashed"]
    /\ UNCHANGED <<repo_vars, live, bak, clock, next_uuid, repo_password, added, cx>>

\* The invocation ends; the next command may start.
Return(p) ==
    /\ pc[p] = "done"
    /\ pc' = [pc EXCEPT ![p] = "idle"]
    /\ result' = [result EXCEPT ![p] = None]
    /\ UNCHANGED <<repo_vars, live, bak, clock, next_uuid, local, repo_password, added,
                   trail, cx>>

----------------------------------------------------------------------------
(* What remove, list and restore share *)

\* canonicalize(path).unwrap_or_else(|_| path): the argument itself when nothing
\* is there to resolve.
resolve_or_raw(fs, arg) ==
    IF canonicalize(fs, arg).ok THEN canonicalize(fs, arg).val ELSE arg

\* Path::new(a) == Path::new(b).  Every path of the model is free of repeated
\* separators, of inner "." components and of a trailing separator, where
\* component-wise equality is equality of the strings.
path_eq(a, b) == a = b

\* remove_file and list_files up to the decrypted Repository (remove.rs 37-64,
\* list.rs 107-129): config.enc is read whatever the backend is.
config_open(password) ==
    IF ~repo_exists THEN Err("RepositoryNotFound", "")
    ELSE IF config_enc = NoFile THEN Err("Io", "No such file or directory")
    ELSE IF ~get_repository_salt(salt_key, config_enc).ok
         THEN get_repository_salt(salt_key, config_enc)
    ELSE IF ~crypto_for(password, get_repository_salt(salt_key, config_enc).val).ok
         THEN crypto_for(password, get_repository_salt(salt_key, config_enc).val)
    ELSE LET key == crypto_for(password, get_repository_salt(salt_key, config_enc).val).val
         IN  IF ~load_config(key, config_enc).ok THEN load_config(key, config_enc)
             ELSE Ok([key |-> key, repository |-> load_config(key, config_enc).val])

----------------------------------------------------------------------------
(* remove: commands/remove.rs *)

\* file_index finding nothing.
remove_index_never(files, file_path, arg) == 0

\* file_index taking the first record that contains the fragment.
remove_index_partial(files, file_path, arg) ==
    FirstOf({i \in 1..Len(files) : contains(files[i].original_path, arg)})

\* file_index (lines 67-76): the record of the resolved path, else the first record
\* whose original_path contains the argument as given.
remove_index(files, file_path, arg) ==
    IF FirstOf({i \in 1..Len(files) : files[i].original_path = file_path
                                        \/ path_eq(files[i].original_path, file_path)}) # 0
    THEN FirstOf({i \in 1..Len(files) : files[i].original_path = file_path
                                          \/ path_eq(files[i].original_path, file_path)})
    ELSE FirstOf({i \in 1..Len(files) : contains(files[i].original_path, arg)})

\* remove_file, first part: everything up to and including the deletion of the
\* stored body (lines 37-107).  confirmed: --force, or "y" at the prompt.
RemoveStart(p, arg, password, confirmed, keep_content) ==
    /\ pc[p] = "idle"
    /\ LET args == [path |-> arg, password |-> password, keep_content |-> keep_content]
           o == config_open(password)
           index == remove_index(o.val.repository.files, resolve_or_raw(live, arg), arg)
       IN  IF ~o.ok
           THEN /\ Finish(p, "remove", args, o)
                /\ UNCHANGED files_dir
           ELSE IF index = 0
           THEN /\ Finish(p, "remove", args, Err("FileNotTracked", arg))
                /\ UNCHANGED files_dir
           ELSE IF ~confirmed
           THEN /\ Finish(p, "remove", args, Ok([outcome |-> "canceled"]))
                /\ UNCHANGED files_dir
           ELSE /\ files_dir' =
                       IF ~keep_content
                          /\ Exists(files_dir, o.val.repository.files[index].repo_path)
                       THEN Drop(files_dir, o.val.repository.files[index].repo_path)
                       ELSE files_dir
                /\ pc' = [pc EXCEPT ![p] = "remove_write2"]
                /\ local' = [local EXCEPT ![p] =
                       [args |-> args, key |-> o.val.key, index |-> index,
                        removed |-> o.val.repository.files[index],
                        repository |-> [o.val.repository EXCEPT !.files =
                                           RemoveAt(o.val.repository.files, index)],
                        before |-> Persisted]]
                /\ UNCHANGED result
    /\ UNCHANGED <<repo_exists, storage_type, salt_key, config_enc, db_repository, db_files,
                   live, bak, clock, next_uuid, repo_password, added, trail, cx>>

\* remove_file, second part (lines 110-121): the Repository without the record is
\* encrypted under a fresh nonce and written to config.enc.
RemoveFinish(p, nonce) ==
    /\ pc[p] = "remove_write2"
    /\ config_enc' = encrypt(local[p].key, nonce, to_json(local[p].repository))
    /\ Finish(p, "remove", local[p].args,
              Ok([outcome |-> "removed", index |-> local[p].index,
                  removed |-> local[p].removed]))
    /\ trail' = TrailOther
    /\ UNCHANGED <<repo_exists, storage_type, salt_key, files_dir, db_repository, db_files,
                   live, bak, clock, next_uuid, repo_password, added, cx>>

\* The process dies before remove_file writes config.enc.
RemoveCrash(p) ==
    /\ pc[p] = "remove_write2"
    /\ Finish(p, "remove", local[p].args, [ok |-> FALSE, kind |-> "crash", msg |-> ""])
    /\ trail' = [state |-> "crashed"]
    /\ UNCHANGED <<repo_vars, live, bak, clock, next_uuid, repo_password, added, cx>>

\* fs::write of config.enc returns an error (line 114), which `?` hands to the
\* caller: the stored body is gone, the record is still listed.
RemoveFail(p) ==
    /\ pc[p] = "remove_write2"
    /\ Finish(p, "remove", local[p].args,
              [ok |-> FALSE, kind |-> "Io", msg |-> "", before |-> local[p].before])
    /\ trail' = [state |-> "crashed"]
    /\ UNCHANGED <<repo_vars, live, bak, clock, next_uuid, repo_password, added, cx>>

----------------------------------------------------------------------------
(* list: commands/list.rs *)

\* The clock ticks of one calendar day, for last_updated.format("%Y-%m-%d").
TicksPerDay == 2
format_date(t) == t \div TicksPerDay

\* filter_files: the records that pass the path filter and the date filter.
include(file, path_filter, date_filter) ==
    /\ path_filter = None \/ contains(file.original_path, path_filter.some)
    /\ date_filter = None \/ format_date(file.last_updated) = date_filter.some

filter_files_unfiltered(files, path_filter, date_filter) == files

RECURSIVE filter_files(_, _, _)
filter_files(files, path_filter, date_filter) ==
    IF files = <<>> THEN <<>>
    ELSE (IF include(Head(files), path_filter, date_filter) THEN <<Head(files)>> ELSE <<>>)
         \o filter_files(Tail(files), path_filter, date_filter)

Some(v) == [some |-> v]

\* list_files: the filtered records, which the caller prints.
ListFiles(p, password, path_filter, date_filter) ==
    /\ pc[p] = "idle"
    /\ LET o == config_open(password) IN
       Finish(p, "list",
              [password |-> password, path |-> path_filter, date |-> date_filter],
              IF ~o.ok THEN o
              ELSE Ok(filter_files(o.val.repository.files, path_filter, date_filter)))
    /\ UNCHANGED <<repo_vars, live, bak, clock, next_uuid, repo_password, added, trail, cx>>

----------------------------------------------------------------------------
(* diff: commands/diff.rs *)

\* A file whose last line has no line terminator.
TextNoEol(body) == [fmt |-> "text", body |-> body, eol |-> FALSE]

\* The tokens TextDiff::from_lines compares: every line with its terminator, so
\* that a last line without one is another token than the same line with one.
Lines(content) ==
    [i \in 1..Len(content.body) |->
        <<content.body[i], i < Len(content.body) \/ "eol" \notin DOMAIN content>>]

\* A line is appended to a file: the result has one line more and ends in a line
\* terminator.
AppendLine(content, line) == Text(content.body \o <<line>>)

\* The number of Equal changes of the shortest edit script (Myers): the length of
\* a longest common subsequence of the two token sequences.
RECURSIVE lcs(_, _)
lcs(a, b) ==
    IF a = <<>> \/ b = <<>> THEN 0
    ELSE IF Head(a) = Head(b) THEN 1 + lcs(Tail(a), Tail(b))
    ELSE IF lcs(Tail(a), b) >= lcs(a, Tail(b)) THEN lcs(Tail(a), b)
    ELSE lcs(a, Tail(b))

DiffResult(path, has_changes, additions, deletions, diff_text) ==
    [path |-> path, has_changes |-> has_changes, additions |-> additions,
     deletions |-> deletions, diff_text |-> diff_text]

\* diff_single_file counting the Equal lines it prints as additions.
diff_single_file_counts_context(fs, fdir, key, file, context) ==
    IF ~Exists(fs, file.original_path)
    THEN Ok(DiffResult(file.original_path, TRUE, 0, 0, [note |-> "cannot be read"]))
    ELSE IF ~Exists(fdir, file.repo_path) THEN Err("Io", "No such file or directory")
    ELSE IF ~decrypt(key, fdir[file.repo_path]).ok THEN decrypt(key, fdir[file.repo_path])
    ELSE LET stored == Lines(decrypt(key, fdir[file.repo_path]).val)
             current == Lines(fs[file.original_path])
         IN  Ok(DiffResult(file.original_path,
                           context \/ stored # current,
                           Len(current) - (IF context THEN 0 ELSE lcs(stored, current)),
                           Len(stored) - lcs(stored, current),
                           [note |-> "lines"]))

\* diff_single_file trusting the stored hash: a live file whose BLAKE3 digest is
\* the record's is reported unchanged without a look at the stored body.
diff_single_file_by_hash(fs, fdir, key, file, context) ==
    IF ~Exists(fs, file.original_path)
    THEN Ok(DiffResult(file.original_path, TRUE, 0, 0, [note |-> "cannot be read"]))
    ELSE IF file.hash = blake3_hash(fs[file.original_path])
    THEN Ok(DiffResult(file.original_path, FALSE, 0, 0, [note |-> "Files are identical."]))
    ELSE Ok(DiffResult(file.original_path, TRUE, Len(fs[file.original_path].body), 0,
                       [note |-> "lines"]))

\* diff_single_file: fs the live files, fdir the files under .kitty/files.
\* diff_text is kept as the number of lines printed with each tag.
diff_single_file(fs, fdir, key, file, context) ==
    IF ~Exists(fs, file.original_path)
    THEN Ok(DiffResult(file.original_path, TRUE, 0, 0, [note |-> "cannot be read"]))
    ELSE IF ~Exists(fdir, file.repo_path) THEN Err("Io", "No such file or directory")
    ELSE IF ~decrypt(key, fdir[file.repo_path]).ok THEN decrypt(key, fdir[file.repo_path])
    ELSE LET stored == Lines(decrypt(key, fdir[file.repo_path]).val)
             current == Lines(fs[file.original_path])
             equal == lcs(stored, current)
             deletions == Len(stored) - equal
             additions == Len(current) - equal
         IN  IF deletions = 0 /\ additions = 0
             THEN Ok(DiffResult(file.original_path, FALSE, 0, 0,
                                [note |-> "Files are identical."]))
             ELSE Ok(DiffResult(file.original_path, additions > 0 \/ deletions > 0,
                                additions, deletions,
                                [note |-> "lines", inserted |-> additions,
                                 deleted |-> deletions,
                                 equal |-> IF context THEN equal ELSE 0]))

\* The loop of diff_files (lines 203-215): the DiffResult of every record, or the
\* first error, which `?` returns.
RECURSIVE diff_loop(_, _, _, _, _)
diff_loop(files, fs, fdir, key, context) ==
    IF files = <<>> THEN Ok(<<>>)
    ELSE IF ~diff_single_file(fs, fdir, key, Head(files), context).ok
         THEN diff_single_file(fs, fdir, key, Head(files), context)
    ELSE IF ~diff_loop(Tail(files), fs, fdir, key, context).ok
         THEN diff_loop(Tail(files), fs, fdir, key, context)
    ELSE Ok(<<diff_single_file(fs, fdir, key, Head(files), context).val>>
            \o diff_loop(Tail(files), fs, fdir, key, context).val)

\* files_to_diff (lines 174-195): every record, or the first record of the
\* resolved path or whose original_path contains the argument.
files_to_diff(files, fs, path) ==
    IF path = None THEN files
    ELSE LET index == FirstOf({i \in 1..Len(files) :
                                  \/ path_eq(files[i].original_path,
                                             resolve_or_raw(fs, path.some))
                                  \/ contains(files[i].original_path, path.some)})
         IN  IF index = 0 THEN <<>> ELSE <<files[index]>>

\* The DiffResults with has_changes.
RECURSIVE changed(_)
changed(results) ==
    IF results = <<>> THEN <<>>
    ELSE (IF Head(results).has_changes THEN <<Head(results)>> ELSE <<>>)
         \o changed(Tail(results))

\* diff_files: config.enc is read whatever the backend is.  What it returns to the
\* caller is Ok(()) or the error; results is what it prints.
DiffFiles(p, password, path, only_changed, context) ==
    /\ pc[p] = "idle"
    /\ LET args == [password |-> password, path |-> path, only_changed |-> only_changed,
                    context |-> context]
           o == config_open(password)
           files == o.val.repository.files
           todo == files_to_diff(files, live, path)
           all == diff_loop(todo, live, files_dir, o.val.key, context)
       IN  Finish(p, "diff", args,
                  IF ~o.ok THEN o
                  ELSE IF files = <<>>
                       THEN Ok([outcome |-> "nothing tracked", files |-> <<>>,
                                all |-> <<>>, results |-> <<>>])
                  ELSE IF todo = <<>> THEN Err("FileNotTracked", path.some)
                  ELSE IF ~all.ok THEN all
                  ELSE Ok([outcome |-> "diffed", files |-> todo, all |-> all.val,
                           results |-> IF only_changed THEN changed(all.val)
                                       ELSE all.val]))
    /\ UNCHANGED <<repo_vars, live, bak, clock, next_uuid, repo_password, added, trail, cx>>

----------------------------------------------------------------------------
(* restore: commands/restore.rs *)

\* restore_files up to the loaded Repository (lines 44-73).
restore_open(password) ==
    IF ~repo_exists THEN Err("RepositoryNotFound", "")
    ELSE IF ~get_storage_type(storage_type).ok THEN get_storage_type(storage_type)
    ELSE IF ~get_repository_salt(salt_key, config_enc).ok
         THEN get_repository_salt(salt_key, config_enc)
    ELSE IF ~crypto_for(password, get_repository_salt(salt_key, config_enc).val).ok
         THEN crypto_for(password, get_repository_salt(salt_key, config_enc).val)
    ELSE LET key == crypto_for(password, get_repository_salt(salt_key, config_enc).val).val
             repository == IF get_storage_type(storage_type).val = "sqlite"
                           THEN load_repository(db_repository, db_files)
                           ELSE load_config(key, config_enc)
         IN  IF ~repository.ok THEN repository
             ELSE Ok([key |-> key, repository |-> repository.val])

\* matching_files (lines 89-95): the records of the resolved path and those whose
\* original_path contains the argument as given, in list order.
RECURSIVE matching_files(_, _, _)
matching_files(files, file_path, arg) ==
    IF files = <<>> THEN <<>>
    ELSE (IF path_eq(Head(files).original_path, file_path)
             \/ contains(Head(files).original_path, arg)
          THEN <<Head(files)>> ELSE <<>>)
         \o matching_files(Tail(files), file_path, arg)

\* The stored body restore reads (line 137): the file .kitty/<repo_path>,
\* whatever the backend is.
restore_read_body(fdir, dbfiles, repo_path) ==
    IF Exists(fdir, repo_path) THEN Ok(fdir[repo_path])
    ELSE Err("Io", "No such file or directory")

\* What the filesystem may do to restore_files at one record: nothing; the stored
\* body cannot be read, or reads back altered; the parent directory of the live
\* file is missing, and create_dir_all makes it or fails; fs::copy to .bak fails;
\* fs::write of the live file fails.
Faults == {"none", "unreadable", "corrupt", "noparent", "mkdir", "backup", "write"}
NoFaults == [path \in CanonPaths |-> "none"]

restore_one_ignores_dry_run(file, key, dry_run, backup, fdir, dbfiles, env, st) ==
    IF ~restore_read_body(fdir, dbfiles, file.repo_path).ok
    THEN [st EXCEPT !.errors = @ + 1]
    ELSE [st EXCEPT
             !.live = Put(@, file.original_path,
                          restore_read_body(fdir, dbfiles, file.repo_path).val.box.pt),
             !.skipped = @ + 1]

\* One round of the loop of restore_files (lines 132-233) on the filesystem and
\* counters st, with the faults env of the filesystem.
restore_one(file, key, dry_run, backup, fdir, dbfiles, env, st) ==
    LET fault == IF file.original_path \in DOMAIN env THEN env[file.original_path]
                 ELSE "none"
        body == IF fault = "unreadable" THEN Err("Io", "Permission denied")
                ELSE restore_read_body(fdir, dbfiles, file.repo_path)
        stored == IF fault = "corrupt" THEN [body.val EXCEPT !.box.tag = "bad"]
                  ELSE body.val
        plain == decrypt(key, stored)
        file_exists == Exists(st.live, file.original_path)
        parent_missing == ~file_exists /\ fault \in {"noparent", "mkdir"}
    IN  IF ~body.ok THEN [st EXCEPT !.errors = @ + 1]
        ELSE IF ~plain.ok THEN [st EXCEPT !.errors = @ + 1]
        ELSE IF dry_run THEN [st EXCEPT !.skipped = @ + 1]
        ELSE IF parent_missing /\ fault = "mkdir" THEN [st EXCEPT !.errors = @ + 1]
        ELSE [st EXCEPT
                 !.made = IF parent_missing THEN @ \cup {file.original_path} ELSE @,
                 !.bak = IF file_exists /\ backup /\ fault # "backup"
                         THEN Put(@, file.original_path, st.live[file.original_path])
                         ELSE @,
                 !.live = IF fault = "write" THEN @
                          ELSE Put(@, file.original_path, plain.val),
                 !.restored = IF fault = "write" THEN @ ELSE @ + 1,
                 !.errors = IF fault = "write" THEN @ + 1 ELSE @]

RECURSIVE restore_loop_aborting(_, _, _, _, _, _, _, _)
restore_loop_aborting(files, key, dry_run, backup, fdir, dbfiles, env, st) ==
    IF files = <<>> \/ st.errors > 0 THEN st
    ELSE restore_loop_aborting(Tail(files), key, dry_run, backup, fdir, dbfiles, env,
                               restore_one(Head(files), key, dry_run, backup, fdir,
                                           dbfiles, env, st))

RECURSIVE restore_loop(_, _, _, _, _, _, _, _)
restore_loop(files, key, dry_run, backup, fdir, dbfiles, env, st) ==
    IF files = <<>> THEN st
    ELSE restore_loop(Tail(files), key, dry_run, backup, fdir, dbfiles, env,
                      restore_one(Head(files), key, dry_run, backup, fdir, dbfiles, env,
                                  st))

\* The summary restore_files prints (lines 236-241), with the records it
\* processed, the live files whose parent directory it created, and the live and
\* .bak files as they were when it started.
Tally(outcome, processed, restored, skipped, errors, made, before) ==
    [outcome |-> outcome, processed |-> processed, restored |-> restored,
     skipped |-> skipped, errors |-> errors, made |-> made, before |-> before]

\* restore_files.  path: None or Some(argument); confirmed: --force, or "y" at the
\* prompt that is shown when no path is given and the run is no dry run; env: the
\* fault the filesystem has in store at each live path.
RestoreFiles(p, path, password, confirmed, dry_run, backup, env) ==
    /\ pc[p] = "idle"
    /\ LET args == [path |-> path, password |-> password, dry_run |-> dry_run,
                    backup |-> backup, env |-> env]
           o == restore_open(password)
           files == o.val.repository.files
           todo == IF path = None THEN files
                   ELSE matching_files(files, resolve_or_raw(live, path.some), path.some)
           before == [live |-> live, bak |-> bak]
           st == restore_loop(todo, o.val.key, dry_run, backup, files_dir, db_files, env,
                              [live |-> live, bak |-> bak, made |-> {},
                               restored |-> 0, skipped |-> 0, errors |-> 0])
           stay == /\ live' = live
                   /\ bak' = bak
       IN  IF ~o.ok THEN Finish(p, "restore", args, o) /\ stay
           ELSE IF files = <<>>
                THEN Finish(p, "restore", args,
                            Ok(Tally("nothing tracked", <<>>, 0, 0, 0, {}, before))) /\ stay
           ELSE IF path # None /\ todo = <<>>
                THEN Finish(p, "restore", args, Err("FileNotTracked", path.some)) /\ stay
           ELSE IF path = None /\ ~dry_run /\ ~confirmed
                THEN Finish(p, "restore", args,
                            Ok(Tally("canceled", <<>>, 0, 0, 0, {}, before))) /\ stay
           ELSE /\ live' = st.live
                /\ bak' = st.bak
                /\ Finish(p, "restore", args,
                          Ok(Tally("processed", todo, st.restored, st.skipped, st.errors,
                                   st.made, before)))
    /\ UNCHANGED <<repo_vars, clock, next_uuid, repo_password, added, trail, cx>>

----------------------------------------------------------------------------
(* The user edits the tracked files between commands *)

AllIdle == \A p \in Procs : pc[p] = "idle"

\* storage.type is rewritten from outside: by hand, or by another version of the
\* program.
EditMarker(marker) ==
    /\ AllIdle
    /\ repo_exists
    /\ storage_type # marker
    /\ storage_type' = marker
    /\ UNCHANGED <<repo_exists, salt_key, config_enc, files_dir, db_repository, db_files,
                   live, bak, clock, next_uuid, pc, local, result, repo_password, added,
                   trail, cx>>

WriteLive(path, content) ==
    /\ AllIdle
    /\ live[path] # content
    /\ live' = [live EXCEPT ![path] = content]
    /\ UNCHANGED <<repo_vars, bak, clock, next_uuid, pc, local, result, repo_password,
                   added, trail, cx>>

DeleteLive(path) ==
    /\ AllIdle
    /\ live[path] # NoFile
    /\ live' = [live EXCEPT ![path] = NoFile]
    /\ UNCHANGED <<repo_vars, bak, clock, next_uuid, pc, local, result, repo_password,
                   added, trail, cx>>

----------------------------------------------------------------------------
(* The commands run one at a time *)

\* The inputs a specification draws: the arguments and options of the commands.
\* OsRng's draws do not bear on what a command does to the repository: one salt
\* and one nonce stand for all.
Inputs ==
    [init_passwords |-> {"pw1"},
     passwords |-> Passwords,
     nonces |-> {"n1"},
     args |-> {<<"a">>, <<"/", "b">>},
     keep_contents |-> BOOLEAN,
     path_filters |-> {None},
     date_filters |-> {None},
     restore_paths |-> {None, Some(<<"a">>), Some(<<"/", "b">>)},
     dry_runs |-> {FALSE},
     backups |-> {FALSE},
     faults |-> {NoFaults}]

Command(p, in) ==
    \/ \E password \in in.init_passwords, salt_id \in SaltIds, nonce \in in.nonces :
           InitRepository(p, password, salt_id, nonce)
    \/ \E use_sqlite \in BOOLEAN, password \in in.init_passwords, salt_id \in SaltIds,
          nonce \in in.nonces :
           InitRepositoryWithOptions(p, use_sqlite, password, salt_id, nonce)
    \/ \E arg \in in.args, password \in in.passwords, nonce \in in.nonces :
           AddStart(p, arg, password, nonce)
    \/ \E nonce \in in.nonces : AddFinishFile(p, nonce)
    \/ AddFinishSqlite(p)
    \/ AddCrash(p)
    \/ \E arg \in in.args, password \in in.passwords, confirmed \in BOOLEAN,
          keep_content \in in.keep_contents :
           RemoveStart(p, arg, password, confirmed, keep_content)
    \/ \E nonce \in in.nonces : RemoveFinish(p, nonce)
    \/ RemoveCrash(p)
    \/ \E password \in in.passwords, path_filter \in in.path_filters,
          date_filter \in in.date_filters :
           ListFiles(p, password, path_filter, date_filter)
    \/ \E path \in in.restore_paths, password \in in.passwords, confirmed \in BOOLEAN,
          dry_run \in in.dry_runs, backup \in in.backups, env \in in.faults :
           RestoreFiles(p, path, password, confirmed, dry_run, backup, env)
    \/ Return(p)

Next ==
    \/ Command(1, Inputs)
    \/ \E path \in CanonPaths, content \in Contents : WriteLive(path, content)
    \/ \E path \in CanonPaths : DeleteLive(path)

Spec == Init /\ [][Next]_vars

----------------------------------------------------------------------------
(* The Crypto engine on its own: keys derived, blobs sealed, altered and opened *)

\* The salts a Crypto is built from: two of SALT_LEN bytes and the 32 bytes the
\* placeholder of get_repository_salt decodes to.
CryptoSalts == {new_salt(1), new_salt(2), hex_decode(PlaceholderSalt).val}

\* What may happen to a stored blob before it is opened.
Alterations == {"none", "nonce", "ct", "short", "empty"}

\* A stored blob after an alteration: a bit of its nonce or of its ciphertext and
\* tag flipped, or all but its first NONCE_LEN - 1 bytes, or all bytes, cut off.
Alter(blob, how) ==
    IF how = "nonce" THEN [blob EXCEPT !.nonce = "flipped"]
    ELSE IF how = "ct" THEN [blob EXCEPT !.box.tag = "bad"]
    ELSE IF how = "short" THEN [blob EXCEPT !.len = NONCE_LEN - 1]
    ELSE IF how = "empty" THEN [blob EXCEPT !.len = 0]
    ELSE blob

\* What a call left behind: its inputs and what it returned.
Opened(password, salt, src, how, out) ==
    [password |-> password, salt |-> salt, src |-> src, how |-> how, out |-> out]

\* Crypto::from_password_and_salt, then Crypto::encrypt: OsRng draws the nonce.
CryptoEncrypt(password, salt, nonce, data) ==
    /\ Len(cx.sealed) < MaxSealed
    /\ LET crypto == from_password_and_salt(password, salt) IN
       IF ~crypto.ok
       THEN cx' = [cx EXCEPT !.opened = Opened(password, salt, 0, "none", crypto)]
       ELSE cx' = [cx EXCEPT !.sealed =
                      Append(@, [password |-> password, salt |-> salt, nonce |-> nonce,
                                 data |-> data,
                                 blob |-> encrypt(crypto.val, nonce, data)])]
    /\ UNCHANGED <<repo_vars, live, bak, clock, next_uuid, pc, local, result,
                   repo_password, added, trail>>

\* Crypto::from_password_and_salt, then Crypto::decrypt of a stored blob, altered
\* or not.
CryptoDecrypt(password, salt, src, how) ==
    /\ src \in 1..Len(cx.sealed)
    /\ LET crypto == from_password_and_salt(password, salt) IN
       cx' = [cx EXCEPT !.opened =
                 Opened(password, salt, src, how,
                        IF ~crypto.ok THEN crypto
                        ELSE decrypt(crypto.val, Alter(cx.sealed[src].blob, how)))]
    /\ UNCHANGED <<repo_vars, live, bak, clock, next_uuid, pc, local, result,
                   repo_password, added, trail>>

NextCrypto ==
    \/ \E password \in Passwords, salt \in CryptoSalts, nonce \in Nonces, data \in Contents :
           CryptoEncrypt(password, salt, nonce, data)
    \/ \E password \in Passwords, salt \in CryptoSalts, src \in 1..MaxSealed,
          how \in Alterations :
           CryptoDecrypt(password, salt, src, how)

SpecCrypto == Init /\ [][NextCrypto]_vars

----------------------------------------------------------------------------
(* Restore with all its options, on a filesystem that may fail *)

\* The filesystems restore runs on: at most one live path has a fault in store.
RestoreFaults ==
    {env \in [CanonPaths -> Faults] :
        \A x, y \in CanonPaths : env[x] # "none" /\ env[y] # "none" => x = y}

\* init, add and restore with one password, the live files edited in between;
\* restore with and without dry run and backup, under every fault.
NextRestore ==
    \/ \E use_sqlite \in BOOLEAN :
           InitRepositoryWithOptions(1, use_sqlite, "pw1", 1, "n1")
    \/ \E arg \in Inputs.args : AddStart(1, arg, "pw1", "n1")
    \/ AddFinishFile(1, "n1")
    \/ AddFinishSqlite(1)
    \/ \E path \in {None, Some(<<"a">>)}, confirmed \in BOOLEAN, dry_run \in BOOLEAN,
          backup \in BOOLEAN, env \in RestoreFaults :
           RestoreFiles(1, path, "pw1", confirmed, dry_run, backup, env)
    \/ Return(1)
    \/ \E path \in CanonPaths, content \in Contents : WriteLive(path, content)
    \/ \E path \in CanonPaths : DeleteLive(path)

SpecRestore == Init /\ [][NextRestore]_vars

----------------------------------------------------------------------------
(* Diff of text files that are rewritten, appended to and deleted *)

\* The contents a live file is given: empty, one line, one line without a line
\* terminator, two lines.
DiffContents == {Text(<<>>), Text(<<1>>), TextNoEol(<<1>>), Text(<<1, 2>>)}

\* A line is appended to a live file.
AppendLive(path, line) ==
    /\ AllIdle
    /\ live[path] # NoFile
    /\ Len(live[path].body) < MaxLines
    /\ live' = [live EXCEPT ![path] = AppendLine(live[path], line)]
    /\ UNCHANGED <<repo_vars, bak, clock, next_uuid, pc, local, result, repo_password,
                   added, trail, cx>>

\* init, add and diff with one password, the live files edited in between.
NextDiff ==
    \/ \E use_sqlite \in BOOLEAN :
           InitRepositoryWithOptions(1, use_sqlite, "pw1", 1, "n1")
    \/ \E arg \in Inputs.args : AddStart(1, arg, "pw1", "n1")
    \/ AddFinishFile(1, "n1")
    \/ AddFinishSqlite(1)
    \/ \E path \in {None, Some(<<"a">>), Some(<<".", "/", "a">>)},
          only_changed \in BOOLEAN, context \in BOOLEAN :
           DiffFiles(1, "pw1", path, only_changed, context)
    \/ Return(1)
    \/ \E content \in DiffContents : WriteLive(<<"/", "a">>, content)
    \/ AppendLive(<<"/", "a">>, 3)
    \/ \E path \in CanonPaths : DeleteLive(path)

SpecDiff == Init /\ [][NextDiff]_vars

----------------------------------------------------------------------------
(* Every command, with second writes that fail and a marker that is rewritten *)

\* The days a list is filtered by.
DateFilters == {None, Some(0), Some(1)}

\* init, then add, remove, list, diff and restore with one password; the second
\* write of add and of remove may return an error, and storage.type may be
\* given a value the program does not know.
NextFaults ==
    \/ \E use_sqlite \in BOOLEAN :
           InitRepositoryWithOptions(1, use_sqlite, "pw1", 1, "n1")
    \/ \E arg \in Inputs.args : AddStart(1, arg, "pw1", "n1")
    \/ AddFinishFile(1, "n1")
    \/ AddFinishSqlite(1)
    \/ AddFail(1)
    \/ \E arg \in Inputs.args, keep_content \in BOOLEAN :
           RemoveStart(1, arg, "pw1", TRUE, keep_content)
    \/ RemoveFinish(1, "n1")
    \/ RemoveFail(1)
    \/ \E date_filter \in DateFilters : ListFiles(1, "pw1", None, date_filter)
    \/ DiffFiles(1, "pw1", None, FALSE, FALSE)
    \/ RestoreFiles(1, None, "pw1", TRUE, FALSE, FALSE, NoFaults)
    \/ EditMarker("zfs")
    \/ Return(1)

SpecFaults == Init /\ [][NextFaults]_vars

----------------------------------------------------------------------------
(* The SQLite storage layer called on its own, beside add *)

\* The names get_file is asked for: storage keys and original paths.
StoragePaths == {new_repo_path(1), new_repo_path(2)} \cup CanonPaths

\* A body as the flat-file layout keeps it under .kitty/files.
FilesystemCopy == encrypt([pw |-> "pw1", salt |-> new_salt(1)], "n2", Text(<<2>>))

\* A file .kitty/files/<uuid> is there beside the database: the copy an earlier,
\* flat-file layout of the repository left.
PlaceFile(repo_path) ==
    /\ AllIdle
    /\ storage_type = "sqlite"
    /\ ~Exists(files_dir, repo_path)
    /\ files_dir' = Put(files_dir, repo_path, FilesystemCopy)
    /\ UNCHANGED <<repo_exists, storage_type, salt_key, config_enc, db_repository, db_files,
                   live, bak, clock, next_uuid, pc, local, result, repo_password, added,
                   trail, cx>>

\* SqliteStorage::get_file is called.
StorageGetFile(p, path) ==
    /\ pc[p] = "idle"
    /\ storage_type = "sqlite"
    /\ Finish(p, "get_file", [path |-> path], get_file(db_files, files_dir, path))
    /\ UNCHANGED <<repo_vars, live, bak, clock, next_uuid, repo_password, added, trail, cx>>

\* The Repository a caller hands to save_repository: the one it loaded, with or
\* without one record taken out.
Repositories(repository) ==
    {repository} \cup {[repository EXCEPT !.files = RemoveAt(repository.files, i)] :
                          i \in 1..Len(repository.files)}

\* SqliteStorage::save_repository is called, and load_repository after it.
StorageSaveRepository(p, repository) ==
    /\ pc[p] = "idle"
    /\ storage_type = "sqlite"
    /\ db_repository' = save_repository_row(repository)
    /\ db_files' = save_repository_files(db_files, repository)
    /\ Finish(p, "save_repository", [repository |-> repository, db_before |-> db_files],
              load_repository(save_repository_row(repository),
                              save_repository_files(db_files, repository)))
    /\ UNCHANGED <<repo_exists, storage_type, salt_key, config_enc, files_dir, live, bak,
                   clock, next_uuid, repo_password, added, trail, cx>>

\* init of the SQLite backend, add with its crash, and the storage layer.
NextSqlite ==
    \/ InitRepositoryWithOptions(1, TRUE, "pw1", 1, "n1")
    \/ \E arg \in Inputs.args : AddStart(1, arg, "pw1", "n1")
    \/ AddFinishSqlite(1)
    \/ AddCrash(1)
    \/ \E repo_path \in {new_repo_path(1), new_repo_path(2)} : PlaceFile(repo_path)
    \/ \E path \in StoragePaths : StorageGetFile(1, path)
    \/ \E repository \in
           IF load_repository(db_repository, db_files).ok
           THEN Repositories(load_repository(db_repository, db_files).val) ELSE {} :
           StorageSaveRepository(1, repository)
    \/ Return(1)
    \/ \E path \in CanonPaths, content \in Contents : WriteLive(path, content)

SpecSqlite == Init /\ [][NextSqlite]_vars

----------------------------------------------------------------------------
(* Diff and restore of files that were edited after the add *)

\* init and add, then diff and restore of everything tracked, with one password,
\* the live files edited in between.
NextHash ==
    \/ \E use_sqlite \in BOOLEAN :
           InitRepositoryWithOptions(1, use_sqlite, "pw1", 1, "n1")
    \/ \E arg \in Inputs.args : AddStart(1, arg, "pw1", "n1")
    \/ AddFinishFile(1, "n1")
    \/ AddFinishSqlite(1)
    \/ \E context \in BOOLEAN : DiffFiles(1, "pw1", None, FALSE, context)
    \/ \E dry_run \in BOOLEAN, backup \in BOOLEAN :
           RestoreFiles(1, None, "pw1", TRUE, dry_run, backup, NoFaults)
    \/ Return(1)
    \/ \E path \in CanonPaths, content \in Contents : WriteLive(path, content)

SpecHash == Init /\ [][NextHash]_vars

----------------------------------------------------------------------------
(* One invocation of add at a time on the flat-file backend, killed or not *)

\* init, then adds one after the other, each of which may be killed between its
\* two writes; the live files are edited in between.
NextAdd ==
    \/ InitRepositoryWithOptions(1, FALSE, "pw1", 1, "n1")
    \/ \E arg \in Inputs.args : AddStart(1, arg, "pw1", "n1")
    \/ AddFinishFile(1, "n1")
    \/ AddCrash(1)
    \/ Return(1)
    \/ \E path \in CanonPaths, content \in Contents : WriteLive(path, content)

SpecAdd == Init /\ [][NextAdd]_vars

----------------------------------------------------------------------------
(* Two invocations of add at once on the flat-file backend *)

\* init, then add by either of two processes: the steps of the two interleave at
\* the two writes of add_file, and either may be killed between its writes; the
\* live files are edited while no command runs.
NextRace ==
    \/ InitRepositoryWithOptions(1, FALSE, "pw1", 1, "n1")
    \/ \E p \in Procs, arg \in Inputs.args : AddStart(p, arg, "pw1", "n1")
    \/ \E p \in Procs : AddFinishFile(p, "n1")
    \/ \E p \in Procs : AddCrash(p)
    \/ \E p \in Procs : Return(p)
    \/ \E path \in CanonPaths, content \in Contents : WriteLive(path, content)

SpecRace == Init /\ [][NextRace]_vars

----------------------------------------------------------------------------
(* Remove by full path, by partial path and of files that are gone *)

\* The arguments of remove: a relative path, an absolute one, a fragment that
\* every tracked path contains, and a relative path with a leading "./".
RemoveArgs == {<<"a">>, <<"/", "b">>, <<"/">>, <<".", "/", "a">>}

\* init, add and remove with one password, confirmed or not, keeping the stored
\* body or not; live files are deleted in between.
NextRemove ==
    \/ \E use_sqlite \in BOOLEAN :
           InitRepositoryWithOptions(1, use_sqlite, "pw1", 1, "n1")
    \/ \E arg \in Inputs.args : AddStart(1, arg, "pw1", "n1")
    \/ AddFinishFile(1, "n1")
    \/ AddFinishSqlite(1)
    \/ \E arg \in RemoveArgs, confirmed \in BOOLEAN, keep_content \in BOOLEAN :
           RemoveStart(1, arg, "pw1", confirmed, keep_content)
    \/ RemoveFinish(1, "n1")
    \/ Return(1)
    \/ \E path \in CanonPaths : DeleteLive(path)

SpecRemove == Init /\ [][NextRemove]_vars

----------------------------------------------------------------------------
(* What is persisted, read without a key *)

\* The tracked-file list as persisted: the rows of table files on SQLite, the
\* Repository sealed in config.enc otherwise.
TrackedFiles ==
    IF storage_type = "sqlite"
    THEN [i \in 1..Len(db_files) |->
             [original_path |-> db_files[i].original_path,
              repo_path |-> db_files[i].repo_path,
              added_at |-> db_files[i].added_at.body,
              last_updated |-> db_files[i].last_updated.body,
              hash |-> db_files[i].hash]]
    ELSE IF config_enc = NoFile THEN <<>>
    ELSE config_enc.box.pt.body.files

\* The index of the persisted record of a path, 0 when it has none.
TrackedIndex(path) ==
    FirstOf({i \in 1..Len(TrackedFiles) : TrackedFiles[i].original_path = path})

\* The stored body under a storage key: the content column on SQLite, the file
\* .kitty/files/<uuid> otherwise; NoFile when there is none.
StoredBody(repo_path) ==
    IF storage_type = "sqlite"
    THEN IF WithRepoPath(db_files, repo_path) = {} THEN NoFile
         ELSE IF db_files[FirstOf(WithRepoPath(db_files, repo_path))].content = NULL
              THEN NoFile
              ELSE db_files[FirstOf(WithRepoPath(db_files, repo_path))].content
    ELSE IF Exists(files_dir, repo_path) THEN files_dir[repo_path] ELSE NoFile

Returned(p, op) == pc[p] = "done" /\ result[p] # None /\ result[p].op = op
ReturnedOk(p, op) == Returned(p, op) /\ result[p].ret.ok
Crashed(p, op) == Returned(p, op) /\ ~result[p].ret.ok /\ result[p].ret.kind = "crash"

----------------------------------------------------------------------------
(* Claims *)

\* C1: on the SQLite backend an add killed at any point leaves the database either
\* as it was before the add or as the finished add leaves it: never new metadata
\* with the content absent or old.
C1_SqliteAddIsOneTransaction ==
    \A p \in Procs :
        Crashed(p, "add") /\ result[p].ret.storage_type = "sqlite"
        => db_files \in {result[p].ret.db_before, result[p].ret.db_after}

\* C2: no two persisted records have the same original_path, whatever sequence of
\* init, add and remove ran, on either backend.
C2_OriginalPathUnique ==
    \A i, j \in 1..Len(TrackedFiles) :
        i # j => TrackedFiles[i].original_path # TrackedFiles[j].original_path

\* C2 witness: a re-add of a tracked path has returned.
C2_Witness ==
    /\ ReturnedOk(1, "add")
    /\ result[1].ret.val.index # 0
    /\ Len(TrackedFiles) = 1

\* C3: after a restore with the repository's password, in a repository where no
\* command was ever killed, the live file of every record it processed holds the
\* content captured by the last successful add of that path, on either backend.
C3_RestoreGivesLastAdded ==
    \A p \in Procs :
        ReturnedOk(p, "restore")
        /\ result[p].ret.val.outcome = "processed"
        /\ result[p].args.password = repo_password
        /\ ~result[p].args.dry_run
        /\ trail.state # "crashed"
        => \A i \in 1..Len(result[p].ret.val.processed) :
               live[result[p].ret.val.processed[i].original_path]
                   = added[result[p].ret.val.processed[i].original_path]

\* C4: in a freshly initialized repository of either backend, after one add of F a
\* list with the same password and no filters yields exactly one entry, whose
\* original_path is F's resolved absolute path.
C4_AddThenList ==
    \A p \in Procs :
        Returned(p, "list")
        /\ trail.state = "one add"
        /\ result[p].args.password = trail.password
        /\ result[p].args.path = None
        /\ result[p].args.date = None
        => /\ result[p].ret.ok
           /\ Len(result[p].ret.val) = 1
           /\ result[p].ret.val[1].original_path = Resolve(trail.arg)

\* C5: a re-add of a tracked path sets the record's last_updated to the time of
\* the re-add and its hash to the hash of the new content, and leaves the number
\* of records unchanged.
C5_ReAddUpdatesRecord ==
    \A p \in Procs :
        ReturnedOk(p, "add") /\ result[p].ret.val.index # 0
        => LET r == result[p].ret.val IN
           /\ TrackedIndex(r.file_path) # 0
           /\ TrackedFiles[TrackedIndex(r.file_path)].last_updated = r.now
           /\ TrackedFiles[TrackedIndex(r.file_path)].hash = blake3_hash(r.file_content)
           /\ Len(TrackedFiles) = r.count_before

\* C5 witness: a re-add has returned whose content differs from the content added
\* before.
C5_Witness ==
    /\ ReturnedOk(1, "add")
    /\ result[1].ret.val.index # 0
    /\ result[1].ret.val.file_content = Text(<<2>>)

\* C6: a re-add leaves the record's storage_key as it was, and the new encrypted
\* body is stored under that key.
C6_StorageKeyKept ==
    \A p \in Procs :
        ReturnedOk(p, "add") /\ result[p].ret.val.index # 0
        => LET r == result[p].ret.val IN
           /\ TrackedIndex(r.file_path) # 0
           /\ TrackedFiles[TrackedIndex(r.file_path)].repo_path = r.key_before
           /\ StoredBody(r.key_before) = r.encrypted_content
           /\ r.encrypted_content.box.pt = r.file_content

\* C6 witness: a re-add has returned on the SQLite backend.
C6_Witness ==
    /\ ReturnedOk(1, "add")
    /\ result[1].ret.val.index # 0
    /\ storage_type = "sqlite"

\* A blob was opened with the key it was sealed under.
SameKey(o) ==
    /\ o.src # 0
    /\ o.password = cx.sealed[o.src].password
    /\ o.salt = cx.sealed[o.src].salt

\* C7: opening an unaltered blob with the key derived from the password and salt
\* it was sealed under returns exactly the plaintext that was sealed.
C7_RoundTrip ==
    cx.opened # None /\ SameKey(cx.opened) /\ cx.opened.how = "none"
    => cx.opened.out = Ok(cx.sealed[cx.opened.src].data)

\* C7 witness: a sealed blob has been opened, unaltered, with its own key.
C7_Witness ==
    /\ cx.opened # None
    /\ SameKey(cx.opened)
    /\ cx.opened.how = "none"
    /\ cx.opened.out.ok

\* C8: decrypt returns an error and no plaintext when the blob is shorter than
\* NONCE_LEN, when its nonce or its ciphertext and tag were altered, and when it
\* was sealed under another key.
C8_DecryptRejects ==
    cx.opened # None /\ cx.opened.src # 0
    /\ from_password_and_salt(cx.opened.password, cx.opened.salt).ok
    /\ (cx.opened.how # "none" \/ ~SameKey(cx.opened))
    => ~cx.opened.out.ok /\ cx.opened.out.kind # "panic"

\* C8 witness: a blob whose ciphertext was altered has been opened with its own key.
C8_Witness ==
    /\ cx.opened # None
    /\ SameKey(cx.opened)
    /\ cx.opened.how = "ct"
    /\ ~cx.opened.out.ok

\* Two blobs were sealed from the same plaintext under the same key.
SameKeyAndData(i, j) ==
    /\ i # j
    /\ cx.sealed[i].password = cx.sealed[j].password
    /\ cx.sealed[i].salt = cx.sealed[j].salt
    /\ cx.sealed[i].data = cx.sealed[j].data

C10_OneErrorKind ==
    cx.opened # None /\ cx.opened.src # 0
    /\ from_password_and_salt(cx.opened.password, cx.opened.salt).ok
    /\ ~cx.opened.out.ok
    => cx.opened.out.kind = "Decryption"

\* C10 witness: an unaltered blob has been opened with another key, and failed.
C10_Witness ==
    /\ cx.opened # None
    /\ cx.opened.src # 0
    /\ ~SameKey(cx.opened)
    /\ cx.opened.how = "none"
    /\ from_password_and_salt(cx.opened.password, cx.opened.salt).ok
    /\ ~cx.opened.out.ok

\* A restore has gone through its loop.
Processed(p) ==
    ReturnedOk(p, "restore") /\ result[p].ret.val.outcome = "processed"

\* The stored body of a record can be read and decrypted by the restore that
\* returned, under the faults it met.
Recoverable(p, file) ==
    /\ file.original_path \in DOMAIN result[p].args.env
    /\ result[p].args.env[file.original_path] \notin {"unreadable", "corrupt"}
    /\ restore_read_body(files_dir, db_files, file.repo_path).ok
    /\ decrypt(restore_open(result[p].args.password).val.key,
               restore_read_body(files_dir, db_files, file.repo_path).val).ok

\* C12: a batched restore goes through every matched record even when earlier
\* ones fail: it returns Ok whenever the repository opens and a record matches,
\* its counters add up to the number of matched records, and every record that
\* meets no fault is restored.
C12_RestoreContinues ==
    \A p \in Procs :
        /\ Returned(p, "restore") /\ ~result[p].ret.ok
           => \/ ~restore_open(result[p].args.password).ok
              \/ /\ result[p].args.path # None
                 /\ matching_files(restore_open(result[p].args.password).val.repository.files,
                                   resolve_or_raw(live, result[p].args.path.some),
                                   result[p].args.path.some) = <<>>
        /\ Processed(p)
           => LET r == result[p].ret.val IN
              /\ r.restored + r.skipped + r.errors = Len(r.processed)
              /\ \A i \in 1..Len(r.processed) :
                     /\ ~result[p].args.dry_run
                     /\ Recoverable(p, r.processed[i])
                     /\ result[p].args.env[r.processed[i].original_path] = "none"
                     => live[r.processed[i].original_path]
                            = restore_read_body(files_dir, db_files,
                                                r.processed[i].repo_path).val.box.pt

\* C12 witness: a restore of two records has failed at the first one and
\* restored the second.
C12_Witness ==
    /\ Processed(1)
    /\ Len(result[1].ret.val.processed) = 2
    /\ result[1].args.env[result[1].ret.val.processed[1].original_path] = "unreadable"
    /\ result[1].ret.val.errors = 1
    /\ result[1].ret.val.restored = 1

\* C18: a restore in dry-run mode writes no live file, creates no parent
\* directory and no .bak file, and counts as skipped every record whose stored
\* body can be read and decrypted.
C18_DryRunChangesNothing ==
    \A p \in Procs :
        Processed(p) /\ result[p].args.dry_run
        => LET r == result[p].ret.val IN
           /\ live = r.before.live
           /\ bak = r.before.bak
           /\ r.made = {}
           /\ r.restored = 0
           /\ r.skipped = Cardinality({i \in 1..Len(r.processed) :
                                          Recoverable(p, r.processed[i])})

\* C18 witness: a dry run with the backup option has skipped a record whose live
\* file exists and differs from the stored content.
C18_Witness ==
    /\ Processed(1)
    /\ result[1].args.dry_run
    /\ result[1].args.backup
    /\ result[1].ret.val.skipped >= 1
    /\ \E i \in 1..Len(result[1].ret.val.processed) :
           LET f == result[1].ret.val.processed[i] IN
           /\ Recoverable(1, f)
           /\ live[f.original_path] # NoFile
           /\ live[f.original_path] # added[f.original_path]

\* C19: whenever a restore with the backup option has overwritten a live file
\* that existed, the .bak file holds the content the live file had before.
C19_BackupBeforeOverwrite ==
    \A p \in Procs :
        Processed(p) /\ result[p].args.backup
        => \A path \in CanonPaths :
               /\ result[p].ret.val.before.live[path] # NoFile
               /\ live[path] # result[p].ret.val.before.live[path]
               => bak[path] = result[p].ret.val.before.live[path]

\* C13: an add or a remove given a password other than the repository's returns
\* an error and writes nothing, on either backend: it never gets as far as its
\* first write, and what it returns is an error.
C13_WrongPasswordWritesNothing ==
    \A p \in Procs :
        /\ pc[p] = "add_write2" => local[p].password = repo_password
        /\ pc[p] = "remove_write2" => local[p].args.password = repo_password
        /\ (Returned(p, "add") \/ Returned(p, "remove"))
           /\ repo_exists
           /\ result[p].args.password # repo_password
           => ~result[p].ret.ok

\* A diff was run with the repository's password on a repository with its
\* salt.key, and path is a tracked path the diff was asked about.
DiffAsked(p, path) ==
    /\ Returned(p, "diff")
    /\ repo_exists
    /\ salt_key # NoFile
    /\ result[p].args.password = repo_password
    /\ TrackedIndex(path) # 0
    /\ result[p].args.path # None => Resolve(result[p].args.path.some) = path

\* The diff returned Ok and its DiffResult of path has these values.
DiffSays(p, path, has_changes, additions, deletions) ==
    /\ result[p].ret.ok
    /\ result[p].ret.val.outcome = "diffed"
    /\ \E i \in 1..Len(result[p].ret.val.all) :
           /\ result[p].ret.val.all[i].path = path
           /\ result[p].ret.val.all[i].has_changes = has_changes
           /\ result[p].ret.val.all[i].additions = additions
           /\ result[p].ret.val.all[i].deletions = deletions

\* C11: for a tracked text file of whatever content, a diff with the live file as
\* it was added reports no changes, and a diff after one line was appended to
\* the live file reports 1 addition and 0 deletions.
C11_DiffOfAppendedLine ==
    \A p \in Procs, path \in CanonPaths :
        DiffAsked(p, path) /\ storage_type = "file" /\ live[path] # NoFile
        /\ added[path] # NoFile
        => /\ live[path] = added[path] => DiffSays(p, path, FALSE, 0, 0)
           /\ live[path] = AppendLine(added[path], 3) => DiffSays(p, path, TRUE, 1, 0)

\* C16: when the live file of a tracked record is missing, the diff of that
\* record is 'changed, no diff available' (has_changes, 0 additions, 0
\* deletions) and not an error, and a diff of all records has a result for every
\* one of them.
C16_MissingLiveFileIsAChange ==
    \A p \in Procs, path \in CanonPaths :
        DiffAsked(p, path) /\ live[path] = NoFile
        => /\ DiffSays(p, path, TRUE, 0, 0)
           /\ result[p].args.path = None
              => Len(result[p].ret.val.all) = Len(TrackedFiles)

\* C17: the verdict and the counts of a diff are those of a diff of the same
\* snapshot and live content under either setting of context, and a file is
\* unchanged exactly when the stored lines are the live lines.
C17_ContextDoesNotBearOnVerdict ==
    \A p \in Procs :
        ReturnedOk(p, "diff") /\ result[p].ret.val.outcome = "diffed"
        => \A i \in 1..Len(result[p].ret.val.all), context \in BOOLEAN :
               LET r == result[p].ret.val.all[i]
                   file == result[p].ret.val.files[i]
                   d == diff_single_file(live, files_dir,
                                         config_open(result[p].args.password).val.key,
                                         file, context)
               IN  /\ d.ok
                   /\ d.val.has_changes = r.has_changes
                   /\ d.val.additions = r.additions
                   /\ d.val.deletions = r.deletions
                   /\ live[r.path] # NoFile
                      => (r.has_changes <=> Lines(live[r.path])
                                              # Lines(files_dir[file.repo_path].box.pt))

\* C17 witness: a diff with context has found a file with an added and an
\* unchanged line.
C17_Witness ==
    /\ ReturnedOk(1, "diff")
    /\ result[1].ret.val.outcome = "diffed"
    /\ result[1].args.context
    /\ \E i \in 1..Len(result[1].ret.val.all) :
           /\ result[1].ret.val.all[i].additions = 1
           /\ result[1].ret.val.all[i].diff_text.note = "lines"
           /\ result[1].ret.val.all[i].diff_text.equal >= 1

\* C14: whenever add_file or remove_file returns an error, at whatever step,
\* the persisted metadata and the stored bodies are what they were before the
\* call.  (An error returned before the first write carries no snapshot: nothing
\* was written by then.)
C14_AllOrNothing ==
    \A p \in Procs :
        (Returned(p, "add") \/ Returned(p, "remove"))
        /\ ~result[p].ret.ok
        /\ "before" \in DOMAIN result[p].ret
        => Persisted = result[p].ret.before

\* C15: add, remove, list, diff and restore all read storage.type, and with a
\* value other than the recognised ones each of them fails with the
\* unsupported-storage-marker error and writes nothing.
C15_UnknownMarkerIsFatal ==
    \A p \in Procs :
        /\ pc[p] \in {"add_write2", "remove_write2"}
           => get_storage_type(storage_type).ok
        /\ pc[p] = "done" /\ result[p] # None
           /\ result[p].op \in {"add", "remove", "list", "diff", "restore"}
           /\ ~get_storage_type(storage_type).ok
           => ~result[p].ret.ok /\ result[p].ret.kind = "StorageType"

\* C20: a list with a date filter that is the last-updated day of no tracked
\* record returns Ok with an empty result, whether or not the repository tracks
\* any file, wherever list_files can open the repository's configuration.
C20_NoMatchIsEmptyNotError ==
    \A p \in Procs :
        Returned(p, "list")
        /\ result[p].args.date # None
        /\ config_open(result[p].args.password).ok
        /\ (\A i \in 1..Len(config_open(result[p].args.password).val.repository.files) :
               format_date(config_open(result[p].args.password).val.repository
                               .files[i].last_updated) # result[p].args.date.some)
        => result[p].ret = Ok(<<>>)

\* C20 witness: a list filtered by a day on which no file was updated has
\* returned, in a repository that tracks a file.
C20_Witness ==
    /\ Returned(1, "list")
    /\ result[1].args.date = Some(1)
    /\ config_open(result[1].args.password).ok
    /\ Len(config_open(result[1].args.password).val.repository.files) >= 1
    /\ \A i \in 1..Len(config_open(result[1].args.password).val.repository.files) :
           format_date(config_open(result[1].args.password).val.repository
                           .files[i].last_updated) = 0
    /\ result[1].ret.ok

\* C21: get_repository_salt never returns the placeholder salt: in an initialized
\* repository it returns the salt generated at init or an error, and no
\* add, remove, list or restore ends in the panic of a key derived from a salt
\* of another length.
C21_NoPlaceholderSalt ==
    /\ repo_exists /\ get_repository_salt(salt_key, config_enc).ok
       => get_repository_salt(salt_key, config_enc).val # PlaceholderSalt
    /\ \A p \in Procs :
           pc[p] = "done" /\ result[p] # None
           /\ result[p].op \in {"add", "remove", "list", "restore"}
           /\ ~result[p].ret.ok
           => result[p].ret.kind # "panic"

\* C22: on the SQLite backend get_file returns the content column of the row of
\* a storage key whenever that row has content, whether or not a file of that
\* name lies in the repository directory; it returns the file only when the row
\* is there and has no content.
C22_DatabaseIsAuthoritative ==
    \A p \in Procs :
        Returned(p, "get_file")
        => LET path == result[p].args.path
               rows == WithRepoPath(db_files, path)
               row == db_files[FirstOf(rows)]
           IN  /\ rows # {} /\ row.content # NULL
                  => result[p].ret = Ok(row.content)
               /\ result[p].ret.ok /\ Exists(files_dir, path)
                  /\ result[p].ret.val = files_dir[path]
                  => rows # {} /\ row.content = NULL

\* C22 witness: get_file has returned the content column for a storage key whose
\* content lies in the database and, another, in the repository directory.
C22_Witness ==
    /\ Returned(1, "get_file")
    /\ Exists(files_dir, result[1].args.path)
    /\ WithRepoPath(db_files, result[1].args.path) # {}
    /\ db_files[FirstOf(WithRepoPath(db_files, result[1].args.path))].content # NULL
    /\ result[1].ret.ok
    /\ result[1].ret.val # files_dir[result[1].args.path]

\* The storage keys of a list of records or rows.
RepoPaths(seq) == {seq[i].repo_path : i \in 1..Len(seq)}

\* C30: on SQLite, load_repository after save_repository(R) returns R's
\* created_at, salt and records in R's order; every row that had content and whose
\* storage key is in R has that content afterwards, and no row is left of a
\* storage key that is not in R.
C30_SaveThenLoad ==
    \A p \in Procs :
        Returned(p, "save_repository")
        => LET R == result[p].args.repository
               before == result[p].args.db_before
           IN  /\ result[p].ret = Ok(R)
               /\ \A j \in 1..Len(before) :
                      before[j].repo_path \in RepoPaths(R.files)
                      /\ before[j].content # NULL
                      => \E i \in 1..Len(db_files) :
                             /\ db_files[i].repo_path = before[j].repo_path
                             /\ db_files[i].content = before[j].content
               /\ RepoPaths(db_files) = RepoPaths(R.files)
               /\ Len(db_files) = Len(R.files)

\* C30 witness: save_repository has been given a Repository that keeps a record
\* with stored content and leaves out another record that had a row.
C30_Witness ==
    /\ Returned(1, "save_repository")
    /\ result[1].ret.ok
    /\ RepoPaths(result[1].args.db_before) \ RepoPaths(result[1].args.repository.files) # {}
    /\ \E j \in 1..Len(result[1].args.db_before) :
           /\ result[1].args.db_before[j].repo_path
                  \in RepoPaths(result[1].args.repository.files)
           /\ result[1].args.db_before[j].content # NULL

Hashes == {blake3_hash(content) : content \in Contents}
              \cup {[fmt |-> "unknown", body |-> <<>>]}

\* The records with their hash fields set to a value.
WithHash(files, hash) == [i \in 1..Len(files) |-> [files[i] EXCEPT !.hash = hash]]

\* C23: what diff reports (verdict and counts) and what restore writes and counts
\* are the same whatever the hash fields of the records hold: run on the records
\* with another hash, both give what the command gave.
C23_HashIsNotConsulted ==
    \A p \in Procs, hash \in Hashes :
        /\ ReturnedOk(p, "diff") /\ result[p].ret.val.outcome = "diffed"
           => diff_loop(WithHash(result[p].ret.val.files, hash), live, files_dir,
                        config_open(result[p].args.password).val.key,
                        result[p].args.context)
                  = Ok(result[p].ret.val.all)
        /\ Processed(p)
           => LET r == result[p].ret.val
                  st == restore_loop(WithHash(r.processed, hash),
                                     restore_open(result[p].args.password).val.key,
                                     result[p].args.dry_run, result[p].args.backup,
                                     files_dir, db_files, result[p].args.env,
                                     [live |-> r.before.live, bak |-> r.before.bak,
                                      made |-> {}, restored |-> 0, skipped |-> 0,
                                      errors |-> 0])
              IN  /\ st.live = live
                  /\ st.bak = bak
                  /\ st.restored = r.restored
                  /\ st.skipped = r.skipped
                  /\ st.errors = r.errors

\* C23 witness: a diff has reported a change of a file whose record holds the
\* digest of the stored body, not of the live file.
C23_Witness ==
    /\ ReturnedOk(1, "diff")
    /\ result[1].ret.val.outcome = "diffed"
    /\ \E i \in 1..Len(result[1].ret.val.all) :
           /\ result[1].ret.val.all[i].has_changes
           /\ Exists(live, result[1].ret.val.files[i].original_path)
           /\ result[1].ret.val.files[i].hash
                  # blake3_hash(live[result[1].ret.val.files[i].original_path])

\* Both invocations have returned from an add that found its file untracked, and
\* the two files differ.
BothAdded ==
    /\ \A p \in Procs : ReturnedOk(p, "add") /\ result[p].ret.val.index = 0
    /\ result[1].ret.val.file_path # result[2].ret.val.file_path

\* C24: no lock is taken: when two adds of two untracked files have run at once on
\* the flat-file backend, both encrypted bodies are stored, each under its own
\* storage key, and the persisted metadata is what one of the two wrote: the
\* records that one read, and after them the record of its own file.
C24_TwoAddsAtOnce ==
    BothAdded /\ storage_type = "file"
    => /\ \A p \in Procs :
              StoredBody(result[p].ret.val.repo_file_path)
                  = result[p].ret.val.encrypted_content
       /\ \E p \in Procs :
              /\ Len(TrackedFiles) = result[p].ret.val.count_before + 1
              /\ TrackedFiles[Len(TrackedFiles)].original_path = result[p].ret.val.file_path
              /\ TrackedFiles[Len(TrackedFiles)].repo_path
                     = result[p].ret.val.repo_file_path

\* C24 witness: the lost update.  Both adds have returned, both bodies are stored,
\* and the persisted metadata holds one of the two files only.
C24_Witness ==
    /\ BothAdded
    /\ storage_type = "file"
    /\ \A p \in Procs : StoredBody(result[p].ret.val.repo_file_path) # NoFile
    /\ Len(TrackedFiles) = 1

\* The stored body of a record is there and is the content its hash names.
BodyMatches(file) ==
    /\ StoredBody(file.repo_path) # NoFile
    /\ blake3_hash(StoredBody(file.repo_path).box.pt) = file.hash

\* C25 as stated: on the flat-file backend every persisted record has a stored
\* body at every point of an add, and once no add is under way the stored body
\* of every record is the one its record describes: a crashed add leaves nothing
\* but bodies without a record.
C25_OnlyOrphansAfterCrash ==
    storage_type = "file"
    => \A i \in 1..Len(TrackedFiles) :
           /\ StoredBody(TrackedFiles[i].repo_path) # NoFile
           /\ (\A p \in Procs : pc[p] # "add_write2") => BodyMatches(TrackedFiles[i])

\* C25 amended: on the flat-file backend every persisted record has a stored
\* body at every point of an add, the body being written first; a record whose
\* body is not the content its hash names is found only while an add is under
\* way or after an add was killed between its two writes.
C25_BodyBeforeMetadata ==
    storage_type = "file"
    => \A i \in 1..Len(TrackedFiles) :
           /\ StoredBody(TrackedFiles[i].repo_path) # NoFile
           /\ ~BodyMatches(TrackedFiles[i])
              => \/ \E p \in Procs : pc[p] = "add_write2"
                 \/ trail.state = "crashed"

\* C25 witness: an add of a tracked file was killed between its writes: the new
\* body lies under a record that still carries the hash of the old one.
C25_Witness ==
    /\ storage_type = "file"
    /\ \E p \in Procs : Crashed(p, "add")
    /\ \A p \in Procs : pc[p] # "add_write2"
    /\ \E i \in 1..Len(TrackedFiles) :
           /\ StoredBody(TrackedFiles[i].repo_path) # NoFile
           /\ ~BodyMatches(TrackedFiles[i])

\* A remove that was confirmed writes the metadata and returns.
RemoveCompletes(p) ==
    pc[p] = "remove_write2" /\ pc'[p] = "done" /\ result'[p].ret.ok

\* A remove returns without having come to its writes.
RemoveReturnsEarly(p) ==
    pc[p] = "idle" /\ pc'[p] = "done" /\ result'[p].op = "remove"

\* The records a remove found when it started.
FilesBefore(p) == local[p].before.config_enc.box.pt.body.files

\* C26: a confirmed remove drops the matched record from the metadata; the stored
\* body under the record's storage key is gone when keep_content is false and is
\* as it was when keep_content is true, every other stored body is as it was, and
\* no step of remove changes a live file.
C26_RemoveDropsRecord ==
    [][\A p \in Procs :
        /\ pc[p] \in {"idle", "remove_write2"} /\ pc'[p] \in {"remove_write2", "done"}
           => live' = live
        /\ RemoveCompletes(p)
           => LET removed == local[p].removed
                  stored == local[p].before.files_dir
              IN  /\ \E i \in 1..Len(FilesBefore(p)) : FilesBefore(p)[i] = removed
                  /\ \A i \in 1..Len(TrackedFiles') : TrackedFiles'[i] # removed
                  /\ local[p].args.keep_content => files_dir' = stored
                  /\ ~local[p].args.keep_content
                     => /\ ~Exists(files_dir', removed.repo_path)
                        /\ \A k \in DOMAIN stored :
                               k # removed.repo_path
                               => Exists(files_dir', k) /\ files_dir'[k] = stored[k]]_vars

\* C26 witness: a remove with keep_content has returned, and the stored body of
\* the record it dropped is still there.
C26_Witness ==
    /\ ReturnedOk(1, "remove")
    /\ result[1].ret.val.outcome = "removed"
    /\ result[1].args.keep_content
    /\ Exists(files_dir, result[1].ret.val.removed.repo_path)
    /\ TrackedIndex(result[1].ret.val.removed.original_path) = 0

\* Record lists in which one path contains another, with the paths and the
\* fragments a remove may be given for them.
NestedPaths == {<<"/", "a">>, <<"/", "a", "b">>, <<"/", "b">>}
NestedLists ==
    {<<>>} \cup {<<[original_path |-> x]>> : x \in NestedPaths}
           \cup {pair \in {<<[original_path |-> x], [original_path |-> y]>> :
                                x \in NestedPaths, y \in NestedPaths} :
                     pair[1] # pair[2]}

\* file_index picks the first record of the path before any record that only
\* contains the fragment.
ExactBeforePartial ==
    \A files \in NestedLists, file_path \in NestedPaths, arg \in {<<"a">>, <<"b">>} :
        LET exact == {i \in 1..Len(files) : files[i].original_path = file_path}
            partial == {i \in 1..Len(files) : contains(files[i].original_path, arg)}
        IN  remove_index(files, file_path, arg)
                = IF exact # {} THEN FirstOf(exact) ELSE FirstOf(partial)

\* C28: a confirmed remove takes out one record: the first whose original_path is
\* the resolved argument, or, when there is none, the first whose original_path
\* contains the argument as given; the records before it and after it stay as
\* they were, in their order.
C28_RemoveTakesOneRecord ==
    [][\A p \in Procs :
        RemoveCompletes(p)
        => LET before == FilesBefore(p)
               after == TrackedFiles'
               arg == local[p].args.path
               exact == {i \in 1..Len(before) :
                            before[i].original_path = resolve_or_raw(live, arg)}
               partial == {i \in 1..Len(before) : contains(before[i].original_path, arg)}
               index == IF exact # {} THEN FirstOf(exact) ELSE FirstOf(partial)
           IN  /\ index # 0
               /\ result'[p].ret.val.removed = before[index]
               /\ Len(after) = Len(before) - 1
               /\ \A i \in 1..Len(after) :
                      after[i] = IF i < index THEN before[i] ELSE before[i + 1]
               /\ ExactBeforePartial]_vars

\* C28 witness: a remove by a fragment that two records contain has taken out the
\* first of them and left the second.
C28_Witness ==
    /\ ReturnedOk(1, "remove")
    /\ result[1].ret.val.outcome = "removed"
    /\ result[1].args.path = <<"/">>
    /\ result[1].ret.val.index = 1
    /\ Len(TrackedFiles) = 1
    /\ contains(TrackedFiles[1].original_path, <<"/">>)

\* C29: a remove that comes to no write leaves the metadata, the stored bodies and
\* the live files as they were; when the repository opens, it returns
\* FileNotTracked when no record is or contains the argument, and Ok, canceled,
\* when one does and the prompt was not answered with y.
C29_NothingRemoved ==
    [][\A p \in Procs :
        RemoveReturnsEarly(p)
        => LET o == config_open(result'[p].args.password)
               arg == result'[p].args.path
               files == o.val.repository.files
               matches == {i \in 1..Len(files) :
                              \/ files[i].original_path = resolve_or_raw(live, arg)
                              \/ contains(files[i].original_path, arg)}
           IN  /\ Persisted' = Persisted
               /\ live' = live
               /\ o.ok /\ matches = {}
                  => result'[p].ret = Err("FileNotTracked", arg)
               /\ o.ok /\ matches # {}
                  => result'[p].ret = Ok([outcome |-> "canceled"])]_vars

\* C29 witness: a remove of a path that no record matches has returned
\* FileNotTracked in a repository that tracks a file.
C29_Witness ==
    /\ Returned(1, "remove")
    /\ ~result[1].ret.ok
    /\ result[1].ret.kind = "FileNotTracked"
    /\ Len(TrackedFiles) >= 1
    /\ storage_type = "file"

====
